---- MODULE Spec2Model ----
(***************************************************************************)
(* PartitionedDataSet and IncrementalDataSet of kedro.io                   *)
(* (src/kedro/io/partitioned_dataset.py) as a state machine.               *)
(*                                                                         *)
(* Strings are sequences of character codes, so that str comparison,       *)
(* startswith/endswith, strip and split behave as they do in Python.       *)
(* An optional value (None or a value) is a sequence of length 0 or 1.     *)
(* The storage is a function from protocol-stripped file paths to file     *)
(* contents; its domain is the set of files that exist.                    *)
(***************************************************************************)
EXTENDS Integers, Sequences, FiniteSets, TLC

VARIABLES
    path,          \* self._path, as given to the constructor
    filename_suffix, \* self._filename_suffix
    engine,        \* the class of the instance
    overwrite,     \* self._overwrite
    force_checkpoint, \* self._force_checkpoint (None = <<>>)
    dataset_versioned, \* VERSION_KEY in self._dataset_config: the dataset definition asks for versioning
    checkpoint_versioned, \* the checkpoint definition holds VERSION_KEY or VERSIONED_FLAG_KEY
    codec,         \* a partition id, then its path, then the id of that path (codec specification only)
    files,         \* the storage behind the filesystem capability
    partition_cache, \* self._partition_cache, a Cache(maxsize=1): <<>> or <<listing>>
    lastOp,        \* the operation that ran last
    outcome,       \* "ok", or the exception the last operation raised
    retExists,     \* what the last exists() returned
    retLoad,       \* what the last load() returned
    thunks,        \* the load functions of the latest PartitionedDataSet.load(), held by the caller until its next call
    retThunk,      \* what the last invocation of a load function returned (<<>> when it raised)
    loadLog,       \* file paths given to the underlying datasets loaded by the last operation
    saveLog,       \* <<file path, data>> of the underlying datasets saved by the last operation
    findCount,     \* number of filesystem find calls of the last operation
    fsLog,         \* the calls of sep, invalidate_cache, find, exists and rm on self._filesystem by the last operation, in order
    saveArg,       \* the mapping given to the last operation when it was save()
    saveEvents,    \* <<"call", id>> for a partition function invoked, <<"save", id>> for an underlying save that returned, in the order of the last operation
    quiet,         \* confirm() has run and only release() calls have followed it
    confirmed,     \* the id the latest confirm() of the instance saved (<<>> when none did)
    delivered,     \* for a caller that works in cycles of release(), load(), confirm(): the call due next, the ids earlier loads returned, and those among them returned more than once
    args,          \* the mappings given to the constructor: credentials, fs_args, and those the dataset and checkpoint definitions declare
    heap,          \* the content of each mapping object, by the object's identity
    dataset_config, \* self._dataset_config: key -> identity of the mapping under the key
    checkpoint_config, \* self._checkpoint_config: key -> identity of the mapping under the key
    described,     \* "dataset_config" of what the last describe() returned
    instantiated,  \* the keyword arguments the latest load() or save() constructed its underlying datasets with, in order
    save_on_close, \* KedroSession.save_on_close
    _run_called,   \* KedroSession._run_called
    _store,        \* KedroSession._store: its "exception" entry (<<>> when it has none)
    disk,          \* what the latest self._store.save() wrote (<<>> when none ran)
    hookLog,       \* the calls the last operation on the KedroSession made, in order
    attempts,      \* number of KedroSession.run() calls so far
    phase          \* where the caller stands with respect to the with block of the session

vars == <<path, filename_suffix, engine, overwrite, force_checkpoint, files,
          partition_cache, lastOp, outcome, retExists, retLoad, thunks, retThunk,
          loadLog, saveLog, findCount, confirmed, dataset_versioned,
          checkpoint_versioned, codec, fsLog, saveArg, quiet, saveEvents,
          delivered,
          args, heap, dataset_config, checkpoint_config, described, instantiated,
          save_on_close, _run_called, _store, disk, hookLog, attempts, phase>>

\* the state of the dataset definitions an engine holds
descriptors == <<args, heap, dataset_config, checkpoint_config, described, instantiated>>

\* the state of a KedroSession
session == <<save_on_close, _run_called, _store, disk, hookLog, attempts, phase>>

\* what no operation on the partitions of an instance changes
config == <<path, filename_suffix, engine, overwrite, force_checkpoint,
            dataset_versioned, checkpoint_versioned, codec, descriptors, session>>

-----------------------------------------------------------------------------
(* Bounds *)

\* number of distinct partition files the environment may add under the root
MaxExt == 3

-----------------------------------------------------------------------------
(* Python str operations *)

Range(s) == {s[i] : i \in 1..Len(s)}

RECURSIVE StrLt(_, _)
\* s < t for Python str
StrLt(s, t) ==
    IF t = <<>> THEN FALSE
    ELSE IF s = <<>> THEN TRUE
    ELSE IF Head(s) < Head(t) THEN TRUE
    ELSE IF Head(s) > Head(t) THEN FALSE
    ELSE StrLt(Tail(s), Tail(t))

\* s.startswith(p)
startswith(s, p) == Len(p) <= Len(s) /\ SubSeq(s, 1, Len(p)) = p

\* s.endswith(p)
endswith(s, p) == Len(p) <= Len(s) /\ SubSeq(s, Len(s) - Len(p) + 1, Len(s)) = p

RECURSIVE lstrip(_, _)
\* s.lstrip(c) for a one-character string c
lstrip(s, c) == IF s # <<>> /\ <<Head(s)>> = c THEN lstrip(Tail(s), c) ELSE s

RECURSIVE rstrip(_, _)
\* s.rstrip(c) for a one-character string c
rstrip(s, c) ==
    IF s # <<>> /\ <<s[Len(s)]>> = c THEN rstrip(SubSeq(s, 1, Len(s) - 1), c) ELSE s

\* s.find(d) + 1: the first position at which d occurs in s, 0 when it does not
IndexOf(s, d) ==
    LET hits == {i \in 1..(Len(s) - Len(d) + 1) : SubSeq(s, i, i + Len(d) - 1) = d}
    IN  IF hits = {} THEN 0 ELSE CHOOSE i \in hits : \A j \in hits : i <= j

\* s.split(d, 1).pop(): what follows the first occurrence of d, all of s when there is none
SplitPop(s, d) ==
    LET i == IndexOf(s, d)
    IN  IF i = 0 THEN s ELSE SubSeq(s, i + Len(d), Len(s))

RECURSIVE sorted(_)
\* sorted(S) of a set of str
sorted(S) ==
    IF S = {} THEN <<>>
    ELSE LET m == CHOOSE x \in S : \A y \in S : ~StrLt(y, x)
         IN  <<m>> \o sorted(S \ {m})

-----------------------------------------------------------------------------
(* String constants *)

SchemeSep == <<58, 47, 47>>                               \* "://"
FileProtocol == <<102, 105, 108, 101>>                    \* "file"
S3 == <<115, 51>>                                         \* "s3"
S3_PROTOCOLS == {S3, <<115, 51, 97>>, <<115, 51, 110>>}   \* ("s3", "s3a", "s3n")
DEFAULT_CHECKPOINT_FILENAME == <<67, 72, 69, 67, 75, 80, 79, 73, 78, 84>> \* "CHECKPOINT"
\* the working directory of the process: "/w"
Cwd == <<47, 119>>

\* the root the instance is constructed with: "s3://r"
RootPaths == {<<115, 51, 58, 47, 47, 114>>}
\* a root whose bucket name begins with the characters of the protocol: "s3://s3r"
PrefixedRootPaths == {<<115, 51, 58, 47, 47, 115, 51, 114>>}
\* the roots the codec is applied with: "s3://r", "s3a://r", "s3://s3r", "file:///r",
\* "/r" and the relative "r"
CodecRoots ==
    {<<115, 51, 58, 47, 47, 114>>, <<115, 51, 97, 58, 47, 47, 114>>,
     <<115, 51, 58, 47, 47, 115, 51, 114>>, <<102, 105, 108, 101, 58, 47, 47, 47, 114>>,
     <<47, 114>>, <<114>>}
\* the partition ids the codec is applied to: "a", "a-b", "b", "d/a", "r"
CodecIds == {<<97>>, <<97, 45, 98>>, <<98>>, <<100, 47, 97>>, <<114>>}
\* the suffixes the instance is constructed with: "", ".c"
Suffixes == {<<>>, <<46, 99>>}
\* the forced checkpoints the instance is constructed with: None, "a"
ForcedCheckpoints == {<<>>, << <<97>> >>}

\* names of the files the environment adds under the root, in the order the bound
\* admits them: "a.c", "a-b.c", "B", "c.c" ("B" < "CHECKPOINT" < "a" as str)
ExtNameSeq == << <<97, 46, 99>>, <<97, 45, 98, 46, 99>>, <<66>>, <<99, 46, 99>> >>
ExtNames == {ExtNameSeq[i] : i \in 1..(IF MaxExt < Len(ExtNameSeq) THEN MaxExt ELSE Len(ExtNameSeq))}
\* content of a file added by the environment: "e"
ExtData == <<101>>

\* names of objects an object store can hold under the root: "a", "a.c", "/a.c",
\* "a.c.c", "d/a.c"
KeyNames ==
    {<<97>>, <<97, 46, 99>>, <<47, 97, 46, 99>>, <<97, 46, 99, 46, 99>>,
     <<100, 47, 97, 46, 99>>}

\* partition ids given to save(): "a", "CHECKPOINT"
SaveIds == {<<97>>, DEFAULT_CHECKPOINT_FILENAME}
\* data given to save(): "x"
SaveData == {<<120>>}
\* the mappings given to save()
SaveMappings == UNION {[ids -> SaveData] : ids \in SUBSET SaveIds}
\* partition functions given to save(): <<0>> \o d is a function of no argument that returns d
LazyData == {<<0>> \o d : d \in SaveData}
\* the mappings given to save() that hold a partition function
LazyMappings == UNION {[ids -> SaveData \cup LazyData] : ids \in SUBSET SaveIds} \ SaveMappings

-----------------------------------------------------------------------------
(* Filesystem capability *)

\* infer_storage_options(path)["protocol"]
_protocol ==
    LET i == IndexOf(path, SchemeSep)
    IN  IF i = 0 THEN FileProtocol ELSE SubSeq(path, 1, i - 1)

\* self._filesystem.sep
_sep == <<47>>

\* self._filesystem._strip_protocol(p): the scheme and a trailing separator removed;
\* the local filesystem also makes a relative path absolute
_strip_protocol(p) ==
    LET i == IndexOf(p, SchemeSep)
        bare == IF i = 0 THEN p ELSE SubSeq(p, i + Len(SchemeSep), Len(p))
    IN  rstrip(IF _protocol = FileProtocol /\ ~startswith(bare, _sep)
               THEN Cwd \o _sep \o bare ELSE bare, _sep)

_normalized_path ==
    IF _protocol \in S3_PROTOCOLS
    THEN S3 \o SubSeq(path, Len(_protocol) + 1, Len(path))
    ELSE path

\* the files under the root
FilesUnderRoot(fs) ==
    LET prefix == _strip_protocol(_normalized_path) \o _sep
    IN  {p \in DOMAIN fs : startswith(p, prefix)}

\* self._filesystem.find(self._normalized_path): the files under the root, which
\* fsspec returns as protocol-stripped paths in sorted order
find(fs) == sorted(FilesUnderRoot(fs))

\* the file an underlying dataset constructed with this filepath reads and writes:
\* a file path without a scheme names a file of the local filesystem
StorageKey(filepath) ==
    IF IndexOf(filepath, SchemeSep) = 0 /\ _protocol # FileProtocol
    THEN FileProtocol \o SchemeSep \o filepath
    ELSE _strip_protocol(filepath)

\* the storage after data is written to the file at key
Write(fs, key, data) ==
    [p \in DOMAIN fs \cup {key} |-> IF p = key THEN data ELSE fs[p]]

-----------------------------------------------------------------------------
(* Partition path codec *)

_join_protocol(p) ==
    IF startswith(path, _protocol) /\ ~startswith(p, _protocol)
    THEN _protocol \o SchemeSep \o p
    ELSE p

_partition_to_path(partition_id) ==
    LET dir_path == rstrip(path, _sep)
    IN  dir_path \o _sep \o lstrip(partition_id, _sep) \o filename_suffix

_path_to_partition(p) ==
    LET dir_path == _strip_protocol(_normalized_path)
        rest == lstrip(SplitPop(p, dir_path), _sep)
    IN  IF filename_suffix # <<>> /\ endswith(rest, filename_suffix)
        THEN SubSeq(rest, 1, Len(rest) - Len(filename_suffix))
        ELSE rest

-----------------------------------------------------------------------------
(* Checkpoint *)

\* self._checkpoint_config[self._filepath_arg] of the default checkpoint configuration
default_checkpoint_path == rstrip(_normalized_path, _sep) \o _sep \o DEFAULT_CHECKPOINT_FILENAME

\* the file the checkpoint dataset reads and writes
CheckpointKey == StorageKey(default_checkpoint_path)

\* faulty variant: the checkpoint path is compared with its protocol still on it
CheckpointPath_unstripped == default_checkpoint_path

\* checkpoint_path of _list_partitions: the checkpoint's file path as find returns paths
CheckpointPath == _strip_protocol(default_checkpoint_path)

\* faulty variant: operator.ge in place of operator.gt
comparison_func_ge(a, b) == ~StrLt(a, b)

\* faulty variant: operator.lt in place of operator.gt
comparison_func_lt(a, b) == StrLt(a, b)

\* operator.gt, the default comparison_func
comparison_func(a, b) == StrLt(b, a)

\* self._checkpoint.load(), a failure of which gives None
CheckpointLoad(fs) == IF CheckpointKey \in DOMAIN fs THEN <<fs[CheckpointKey]>> ELSE <<>>

\* faulty variant: the forced checkpoint is ignored
_read_checkpoint_stored(fs) == CheckpointLoad(fs)

_read_checkpoint(fs) ==
    IF force_checkpoint # <<>> THEN force_checkpoint ELSE CheckpointLoad(fs)

-----------------------------------------------------------------------------
(* Partition listing *)

\* faulty variant: without a checkpoint no partition is valid
_is_valid_partition_strict(partition, checkpoint, checkpoint_path) ==
    IF ~endswith(partition, filename_suffix) THEN FALSE
    ELSE IF partition = checkpoint_path THEN FALSE
    ELSE IF checkpoint = <<>> THEN FALSE
    ELSE comparison_func(_path_to_partition(partition), checkpoint[1])

_is_valid_partition(partition, checkpoint, checkpoint_path) ==
    IF ~endswith(partition, filename_suffix) THEN FALSE
    ELSE IF partition = checkpoint_path THEN FALSE
    ELSE IF checkpoint = <<>> THEN TRUE
    ELSE comparison_func(_path_to_partition(partition), checkpoint[1])

\* faulty variant: no filter on filename_suffix
PartitionedList_unfiltered(fs) == find(fs)

\* PartitionedDataSet._list_partitions without its cache
PartitionedList(fs) == SelectSeq(find(fs), LAMBDA p : endswith(p, filename_suffix))

\* IncrementalDataSet._list_partitions without its cache
IncrementalList(fs) ==
    LET checkpoint == _read_checkpoint(fs)
    IN  sorted({p \in FilesUnderRoot(fs) : _is_valid_partition(p, checkpoint, CheckpointPath)})

\* the listing a call that misses the cache computes
FreshList(fs) ==
    IF engine = "IncrementalDataSet" THEN IncrementalList(fs) ELSE PartitionedList(fs)

\* cachedmethod: the cached listing when there is one, a fresh one otherwise
_list_partitions == IF partition_cache # <<>> THEN partition_cache[1] ELSE FreshList(files)

\* the cache after a call of _list_partitions that returned listing
CacheAfterList(listing) == <<listing>>

\* the number of find calls a call of _list_partitions makes
FindsOfList == IF partition_cache # <<>> THEN 0 ELSE 1

\* the filesystem calls a call of _list_partitions makes
FsOfList == [i \in 1..FindsOfList |-> "find"]

\* self._partition_cache.clear() of _invalidate_caches
_invalidate_caches == <<>>

\* the dict a loop "for partition in listing: d[_path_to_partition(partition)] = f[partition]" builds
DictOf(listing, f) ==
    [id \in {_path_to_partition(p) : p \in Range(listing)} |->
        LET i == CHOOSE i \in 1..Len(listing) :
                    /\ _path_to_partition(listing[i]) = id
                    /\ \A j \in 1..Len(listing) : _path_to_partition(listing[j]) = id => j <= i
        IN  f[listing[i]]]

\* the record of a caller that follows no cycle
Untracked == [tracking |-> FALSE, next |-> "release", once |-> {}, twice |-> {}]

\* the record after the call op, which returned the partition ids (none
\* unless op is load)
Track(d, op, ids) ==
    IF ~d.tracking THEN d
    ELSE [tracking |-> TRUE,
          next |-> IF op = "release" THEN "load"
                   ELSE IF op = "load" THEN "confirm" ELSE "release",
          once |-> d.once \cup ids,
          twice |-> d.twice \cup (ids \cap d.once)]

-----------------------------------------------------------------------------
(* Construction.  Only PartitionedDataSet takes overwrite, only                *)
(* IncrementalDataSet a checkpoint.                                            *)

\* the filesystem capabilities PartitionedDataSet.__init__ reaches: self._filesystem.sep
\* and _invalidate_caches() at its end, after the check of the dataset definition
PartitionedInitLog == IF dataset_versioned THEN <<>> ELSE <<"sep", "invalidate_cache">>

\* the exception PartitionedDataSet.__init__ ends with, "ok" when it returns
PartitionedInitOutcome == IF dataset_versioned THEN "DataSetError" ELSE "ok"

\* the exception _parse_checkpoint_config ends with, "ok" when it returns
_parse_checkpoint_config == IF checkpoint_versioned THEN "DataSetError" ELSE "ok"

\* the filesystem capabilities the constructor of the instance reaches:
\* IncrementalDataSet.__init__ runs super().__init__() and then parses the checkpoint
InitLog == PartitionedInitLog

\* the exception the constructor of the instance ends with, "ok" when it returns
InitOutcome ==
    IF PartitionedInitOutcome # "ok" THEN PartitionedInitOutcome
    ELSE IF engine = "IncrementalDataSet" THEN _parse_checkpoint_config
    ELSE "ok"

\* the constructor returned an instance
Constructed == ~dataset_versioned /\ ~checkpoint_versioned

(* State after the constructor: an empty storage, the cache invalidated; no   *)
(* instance, and so no operation, when the constructor raised.                *)

\* no dataset definition is looked at
NoDescriptors ==
    /\ args = <<>>
    /\ heap = <<>>
    /\ dataset_config = <<>>
    /\ checkpoint_config = <<>>
    /\ described = <<>>
    /\ instantiated = <<>>

\* no session is open
NoSession ==
    /\ save_on_close = FALSE
    /\ _run_called = FALSE
    /\ _store = <<>>
    /\ disk = <<>>
    /\ hookLog = <<>>
    /\ attempts = 0
    /\ phase = "none"

InitInstance(roots, engines) ==
    /\ path \in roots
    /\ filename_suffix \in Suffixes
    /\ engine \in engines
    /\ overwrite \in IF engine = "PartitionedDataSet" THEN BOOLEAN ELSE {FALSE}
    /\ dataset_versioned \in BOOLEAN
    /\ checkpoint_versioned \in IF engine = "IncrementalDataSet" THEN BOOLEAN ELSE {FALSE}
    /\ force_checkpoint \in IF engine = "IncrementalDataSet" /\ Constructed
                            THEN ForcedCheckpoints ELSE {<<>>}
    /\ codec = <<>>
    /\ files = <<>>
    /\ partition_cache = _invalidate_caches
    /\ lastOp = "init"
    /\ outcome = InitOutcome
    /\ fsLog = InitLog
    /\ saveArg = <<>>
    /\ saveEvents = <<>>
    /\ quiet = FALSE
    /\ retExists = FALSE
    /\ retLoad = <<>>
    /\ thunks = <<>>
    /\ retThunk = <<>>
    /\ loadLog = <<>>
    /\ saveLog = <<>>
    /\ findCount = 0
    /\ confirmed = <<>>

\* an instance whose caller follows no cycle
InitDataset(roots, engines) == InitInstance(roots, engines) /\ delivered = Untracked

InitFor(roots, engines) == InitDataset(roots, engines) /\ NoDescriptors /\ NoSession

Init == InitFor(RootPaths, {"PartitionedDataSet", "IncrementalDataSet"})

\* a PartitionedDataSet on a bucket whose name begins with the characters of the
\* protocol
InitPrefixedRoot == InitFor(PrefixedRootPaths, {"PartitionedDataSet"}) /\ Constructed

-----------------------------------------------------------------------------
(* Operations *)

\* what an operation that is not load() or a load function leaves of the results
NoLoadResult == retLoad' = <<>> /\ retThunk' = <<>> /\ loadLog' = <<>>

\* AbstractDataSet.exists() -> _exists
Exists ==
    LET listing == _list_partitions IN
    /\ Constructed
    /\ lastOp' = "exists"
    /\ fsLog' = FsOfList
    /\ saveArg' = <<>>
    /\ saveEvents' = <<>>
    /\ quiet' = FALSE
    /\ outcome' = "ok"
    /\ retExists' = (listing # <<>>)
    /\ partition_cache' = CacheAfterList(listing)
    /\ findCount' = FindsOfList
    /\ NoLoadResult
    /\ saveLog' = <<>>
    /\ thunks' = <<>>
    /\ UNCHANGED <<config, files, confirmed, delivered>>

\* the load functions PartitionedDataSet._load builds: dataset.load of a dataset
\* constructed with the partition's file path
PartitionedLoadResult(listing) ==
    DictOf(listing, [p \in Range(listing) |-> _join_protocol(p)])

\* faulty variant: no check for an empty result
PartitionedLoadOutcome_unchecked(listing) == "ok"

\* the exception PartitionedDataSet._load ends with, "ok" when it returns
PartitionedLoadOutcome(listing) == IF listing = <<>> THEN "DataSetError" ELSE "ok"

\* faulty variant: every listed partition is loaded at once
PartitionedLoads_eager(listing) == [i \in 1..Len(listing) |-> _join_protocol(listing[i])]

\* the underlying loads PartitionedDataSet._load performs: none, it only binds dataset.load
PartitionedLoads(listing) == <<>>

\* the data IncrementalDataSet._load returns
IncrementalLoadResult(listing, fs) ==
    DictOf(listing, [p \in Range(listing) |-> fs[StorageKey(_join_protocol(p))]])

\* faulty variant: the check of PartitionedDataSet._load for an empty result is kept
IncrementalLoadOutcome_checked(listing) == IF listing = <<>> THEN "DataSetError" ELSE "ok"

\* the exception IncrementalDataSet._load ends with, "ok" when it returns
IncrementalLoadOutcome(listing) == "ok"

\* faulty variant: load functions are bound as in PartitionedDataSet._load, nothing is loaded
IncrementalLoads_lazy(listing) == <<>>

\* the underlying loads IncrementalDataSet._load performs, in order
IncrementalLoads(listing) == [i \in 1..Len(listing) |-> _join_protocol(listing[i])]

\* AbstractDataSet.load() -> _load
Load ==
    LET listing == _list_partitions IN
    /\ Constructed
    /\ lastOp' = "load"
    /\ fsLog' = FsOfList
    /\ saveArg' = <<>>
    /\ saveEvents' = <<>>
    /\ quiet' = FALSE
    /\ partition_cache' = CacheAfterList(listing)
    /\ findCount' = FindsOfList
    /\ retExists' = FALSE
    /\ retThunk' = <<>>
    /\ saveLog' = <<>>
    /\ IF engine = "PartitionedDataSet"
       THEN /\ outcome' = PartitionedLoadOutcome(listing)
            /\ retLoad' = IF outcome' = "ok" THEN PartitionedLoadResult(listing) ELSE <<>>
            /\ thunks' = retLoad'
            /\ loadLog' = PartitionedLoads(listing)
       ELSE /\ outcome' = IncrementalLoadOutcome(listing)
            /\ retLoad' = IF outcome' = "ok" THEN IncrementalLoadResult(listing, files) ELSE <<>>
            /\ loadLog' = IncrementalLoads(listing)
            /\ thunks' = <<>>
    /\ delivered' = Track(delivered, "load", DOMAIN retLoad')
    /\ UNCHANGED <<config, files, confirmed>>

\* the file path the load function under partition_id is bound to
ThunkPath(partition_id) == thunks[partition_id]

\* the caller invokes one of the load functions it holds: dataset.load()
InvokeThunk ==
    \E partition_id \in DOMAIN thunks :
        LET filepath == ThunkPath(partition_id) IN
        /\ lastOp' = "thunk"
        /\ fsLog' = <<>>
        /\ saveArg' = <<>>
        /\ saveEvents' = <<>>
        /\ quiet' = FALSE
        /\ loadLog' = <<filepath>>
        /\ IF StorageKey(filepath) \in DOMAIN files
           THEN outcome' = "ok" /\ retThunk' = <<files[StorageKey(filepath)]>>
           ELSE outcome' = "DataSetError" /\ retThunk' = <<>>
        /\ retExists' = FALSE
        /\ retLoad' = <<>>
        /\ saveLog' = <<>>
        /\ findCount' = 0
        /\ UNCHANGED <<config, files, partition_cache, thunks, confirmed, delivered>>

\* faulty variant: release() clears only the listing cache of the instance
FsOfRelease_local == <<>>

\* the filesystem calls of _release: that of _invalidate_caches()
FsOfRelease == <<"invalidate_cache">>

\* AbstractDataSet.release() -> _release
Release ==
    /\ Constructed
    /\ lastOp' = "release"
    /\ fsLog' = FsOfRelease
    /\ saveArg' = <<>>
    /\ saveEvents' = <<>>
    /\ UNCHANGED quiet
    /\ outcome' = "ok"
    /\ partition_cache' = _invalidate_caches
    /\ retExists' = FALSE
    /\ NoLoadResult
    /\ saveLog' = <<>>
    /\ findCount' = 0
    /\ thunks' = <<>>
    /\ delivered' = Track(delivered, "release", {})
    /\ UNCHANGED <<config, files, confirmed>>

\* the environment adds a file with one of the names under the root
ExternalAddOf(names) ==
    \E name \in names :
        LET key == _strip_protocol(_normalized_path) \o _sep \o name IN
        /\ Constructed
        /\ key \notin DOMAIN files
        /\ files' = Write(files, key, ExtData)
        /\ lastOp' = "add"
        /\ fsLog' = <<>>
        /\ saveArg' = <<>>
        /\ saveEvents' = <<>>
        /\ quiet' = FALSE
        /\ outcome' = "ok"
        /\ retExists' = FALSE
        /\ NoLoadResult
        /\ saveLog' = <<>>
        /\ findCount' = 0
        /\ UNCHANGED <<config, partition_cache, thunks, confirmed, delivered>>

\* the environment adds a partition file under the root
ExternalAdd == ExternalAddOf(ExtNames)

\* the environment adds an object whose key may begin with a separator or
\* hold the suffix twice
ExternalAddKey == ExternalAddOf(KeyNames)

\* faulty variant: the root is removed whether or not overwrite is set
RemoveRoot_unconditional(fs) == [p \in DOMAIN fs \ FilesUnderRoot(fs) |-> fs[p]]

\* the storage after the overwrite step of _save: the root removed when it exists
\* (a root exists when a file lies under it)
RemoveRoot(fs) ==
    IF overwrite /\ FilesUnderRoot(fs) # {}
    THEN [p \in DOMAIN fs \ FilesUnderRoot(fs) |-> fs[p]]
    ELSE fs

\* the file path _save hands to the underlying dataset of a partition
SavePath(partition_id) == _join_protocol(_partition_to_path(partition_id))

\* callable(partition_data)
callable(partition_data) == partition_data # <<>> /\ Head(partition_data) = 0

\* the data _save hands to the underlying dataset: partition_data() when callable
Resolve(partition_data) ==
    IF callable(partition_data) THEN Tail(partition_data) ELSE partition_data

\* faulty variant: data.items() without sorted(), for a mapping built in descending order
SaveOrder_unsorted(data) ==
    LET s == sorted(DOMAIN data) IN [i \in 1..Len(s) |-> s[Len(s) + 1 - i]]

\* sorted(data.items()): the order in which _save writes the partitions
SaveOrder(data) == sorted(DOMAIN data)

RECURSIVE SaveAll(_, _, _, _)
\* faulty variant: the writes are rolled back when a later underlying save raises
SaveAll_atomic(fs, ids, data, k) ==
    IF k < Len(ids) THEN fs
    ELSE [p \in DOMAIN fs \cup {StorageKey(SavePath(ids[i])) : i \in 1..k} |->
            IF \E i \in 1..k : StorageKey(SavePath(ids[i])) = p
            THEN Resolve(data[ids[CHOOSE i \in 1..k : StorageKey(SavePath(ids[i])) = p]])
            ELSE fs[p]]

\* the storage after the underlying saves of the first k partitions of ids
SaveAll(fs, ids, data, k) ==
    IF k = 0 THEN fs
    ELSE Write(SaveAll(fs, ids, data, k - 1), StorageKey(SavePath(ids[k])),
               Resolve(data[ids[k]]))

\* the cache when _save ends: invalidated by its last statement, which a raising
\* underlying save does not reach
CacheAfterSave(raised) == IF raised THEN partition_cache ELSE _invalidate_caches

\* the filesystem calls of _save: exists when overwrite is set, rm when the root
\* exists then, _invalidate_caches() when no underlying save raised
FsOfSave(fs, raised) ==
    (IF overwrite THEN <<"exists">> ELSE <<>>)
    \o (IF overwrite /\ FilesUnderRoot(fs) # {} THEN <<"rm">> ELSE <<>>)
    \o (IF raised THEN <<>> ELSE <<"invalidate_cache">>)

\* the call of a partition function, when the partition's value is one
CallEvent(partition_id, partition_data) ==
    IF callable(partition_data) THEN << <<"call", partition_id>> >> ELSE <<>>

RECURSIVE SaveEvents(_, _, _, _)
\* faulty variant: every partition function is invoked before the first save
SaveEvents_eager(ids, data, done, failAt) ==
    LET calls == SelectSeq(ids, LAMBDA id : callable(data[id]))
    IN  [i \in 1..Len(calls) |-> <<"call", calls[i]>>] \o [i \in 1..done |-> <<"save", ids[i]>>]

\* what the loop of _save does, in order: for each of the first done partitions the
\* call of its function and its save, then the call of the function of partition
\* number failAt, at which the loop ends
SaveEvents(ids, data, done, failAt) ==
    IF done = 0
    THEN IF failAt = 0 THEN <<>> ELSE CallEvent(ids[failAt], data[ids[failAt]])
    ELSE LET first == CallEvent(ids[1], data[ids[1]]) \o << <<"save", ids[1]>> >>
         IN  first \o SaveEvents(Tail(ids), data, done - 1, IF failAt = 0 THEN 0 ELSE failAt - 1)

\* AbstractDataSet.save(data) -> _save; partition number failAt raises and writes
\* nothing (none raises when failAt = 0): its function when inProducer, its
\* underlying save otherwise
SaveOf(data, failAt, inProducer) ==
        LET ids == SaveOrder(data)
            done == IF failAt = 0 THEN Len(ids) ELSE failAt - 1
        IN
        /\ Constructed
        /\ failAt <= Len(ids)
        /\ inProducer => (failAt # 0 /\ callable(data[ids[failAt]]))
        /\ saveEvents' = SaveEvents(ids, data, done, failAt)
        /\ lastOp' = "save"
        /\ fsLog' = FsOfSave(files, failAt # 0)
        /\ saveArg' = data
        /\ quiet' = FALSE
        /\ outcome' = IF failAt = 0 THEN "ok"
                       ELSE IF inProducer THEN "ProducerError" ELSE "SaveError"
        /\ files' = SaveAll(RemoveRoot(files), ids, data, done)
        /\ saveLog' = [i \in 1..done |-> <<SavePath(ids[i]), Resolve(data[ids[i]])>>]
        /\ partition_cache' = CacheAfterSave(failAt # 0)
        /\ retExists' = FALSE
        /\ NoLoadResult
        /\ findCount' = 0
        /\ thunks' = <<>>
        /\ UNCHANGED <<config, confirmed, delivered>>

\* save() of a mapping of data
Save ==
    \E data \in SaveMappings, failAt \in 0..Cardinality(SaveIds) :
        SaveOf(data, failAt, FALSE)

\* save() of a mapping that holds a partition function
SaveLazy ==
    \E data \in LazyMappings, failAt \in 0..Cardinality(SaveIds), inProducer \in BOOLEAN :
        SaveOf(data, failAt, inProducer)

\* faulty variant: partition_ids[0] in place of partition_ids[-1]
ConfirmValue_first(partition_ids) == partition_ids[1]

\* the value confirm() saves to the checkpoint: partition_ids[-1]
ConfirmValue(partition_ids) == partition_ids[Len(partition_ids)]

\* faulty variant: without "if partition_ids", the empty string is saved when nothing is listed
CheckpointAfterConfirm_unguarded(fs, partition_ids) ==
    Write(fs, CheckpointKey, IF partition_ids # <<>> THEN ConfirmValue(partition_ids) ELSE <<>>)

\* the storage after confirm(): the checkpoint dataset saves when a partition is listed
CheckpointAfterConfirm(fs, partition_ids) ==
    IF partition_ids # <<>>
    THEN Write(fs, CheckpointKey, ConfirmValue(partition_ids))
    ELSE fs

\* faulty variant: confirm() ends with self._invalidate_caches()
CacheAfterConfirm_invalidated(listing) == <<>>

\* the cache after confirm(), which called _list_partitions and invalidates nothing
CacheAfterConfirm(listing) == CacheAfterList(listing)

\* faulty variant: confirm() lists the storage anew
ConfirmListing_fresh == FreshList(files)

\* the listing confirm() takes the last id of: self._list_partitions()
ConfirmListing == _list_partitions

\* IncrementalDataSet.confirm()
Confirm ==
    LET listing == ConfirmListing
        partition_ids == [i \in 1..Len(listing) |-> _path_to_partition(listing[i])]
    IN
    /\ Constructed
    /\ engine = "IncrementalDataSet"
    /\ lastOp' = "confirm"
    /\ fsLog' = FsOfList
    /\ saveArg' = <<>>
    /\ saveEvents' = <<>>
    /\ quiet' = TRUE
    /\ outcome' = "ok"
    /\ files' = CheckpointAfterConfirm(files, partition_ids)
    /\ confirmed' = IF partition_ids # <<>> THEN <<ConfirmValue(partition_ids)>> ELSE confirmed
    /\ partition_cache' = CacheAfterConfirm(listing)
    /\ findCount' = FindsOfList
    /\ retExists' = FALSE
    /\ NoLoadResult
    /\ saveLog' = <<>>
    /\ thunks' = <<>>
    /\ delivered' = Track(delivered, "confirm", {})
    /\ UNCHANGED config

Next ==
    \/ Exists
    \/ Load
    \/ InvokeThunk
    \/ Save
    \/ Release
    \/ Confirm
    \/ ExternalAdd

Spec == Init /\ [][Next]_vars

\* the operations of a PartitionedDataSet
NextPartitioned ==
    \/ Exists
    \/ Load
    \/ InvokeThunk
    \/ Save
    \/ Release
    \/ ExternalAdd

SpecPrefixedRoot == InitPrefixedRoot /\ [][NextPartitioned]_vars

\* a PartitionedDataSet whose caller saves partition functions
InitLazySave == InitFor(RootPaths, {"PartitionedDataSet"}) /\ Constructed

NextLazySave ==
    \/ SaveLazy
    \/ ExternalAdd

SpecLazySave == InitLazySave /\ [][NextLazySave]_vars

-----------------------------------------------------------------------------
(* The partition path codec on its own: an instance of some root and suffix   *)
(* maps a partition id to its path, and that path back to an id.              *)

InitCodec ==
    /\ path \in CodecRoots
    /\ filename_suffix \in Suffixes
    /\ codec \in {<<id>> : id \in CodecIds}
    /\ NoDescriptors
    /\ NoSession
    /\ delivered = Untracked
    /\ engine = "PartitionedDataSet"
    /\ overwrite = FALSE
    /\ force_checkpoint = <<>>
    /\ dataset_versioned = FALSE
    /\ checkpoint_versioned = FALSE
    /\ files = <<>>
    /\ partition_cache = _invalidate_caches
    /\ lastOp = "init"
    /\ outcome = InitOutcome
    /\ fsLog = InitLog
    /\ saveArg = <<>>
    /\ saveEvents = <<>>
    /\ quiet = FALSE
    /\ retExists = FALSE
    /\ retLoad = <<>>
    /\ thunks = <<>>
    /\ retThunk = <<>>
    /\ loadLog = <<>>
    /\ saveLog = <<>>
    /\ findCount = 0
    /\ confirmed = <<>>

\* what an application of the codec leaves alone
instance == <<path, filename_suffix, engine, overwrite, force_checkpoint, dataset_versioned,
              checkpoint_versioned, files, partition_cache, lastOp, outcome, fsLog, saveArg,
              quiet, saveEvents, retExists, retLoad, thunks, retThunk, loadLog, saveLog, findCount,
              confirmed, delivered, descriptors, session>>

\* self._partition_to_path(partition_id)
ToPath ==
    /\ Len(codec) = 1
    /\ codec' = Append(codec, _partition_to_path(codec[1]))
    /\ UNCHANGED instance

\* self._path_to_partition(path) of the path _partition_to_path returned
ToPartition ==
    /\ Len(codec) = 2
    /\ codec' = Append(codec, _path_to_partition(codec[2]))
    /\ UNCHANGED instance

NextCodec ==
    \/ ToPath
    \/ ToPartition

SpecCodec == InitCodec /\ [][NextCodec]_vars

-----------------------------------------------------------------------------
(* Notions the properties use *)

\* s <= t for Python str
StrLe(s, t) == ~StrLt(t, s)

\* the partition ids of a listing
IdsOf(listing) == {_path_to_partition(p) : p \in Range(listing)}

\* the listing the latest call of _list_partitions returned, which the cache holds
\* (empty when the cache holds none)
Listing == IF partition_cache = <<>> THEN <<>> ELSE partition_cache[1]

\* the files a listing computed from storage fs may contain at all: those under the
\* root that end with the suffix, the checkpoint file excepted
Candidates(fs) ==
    {p \in FilesUnderRoot(fs) : endswith(p, filename_suffix) /\ p # CheckpointKey}

Incremental == engine = "IncrementalDataSet"
Partitioned == engine = "PartitionedDataSet"

-----------------------------------------------------------------------------
(* Properties *)

\* C1: for either engine, an exists()/load() that directly follows another
\* exists()/load() performs no find, the first one after construction performs one,
\* and the first one after a save() or a release() performs a fresh find.
C1_OneFindUntilSaveOrRelease ==
    [][lastOp' \in {"exists", "load"} =>
          /\ (lastOp \in {"init", "save", "release"} => findCount' = 1)
          /\ (lastOp \in {"exists", "load"} => findCount' = 0)]_vars

C3_ConfirmStoresGreatestId ==
    (Incremental /\ lastOp = "confirm" /\ Listing # <<>>) =>
        /\ CheckpointLoad(files) # <<>>
        /\ CheckpointLoad(files)[1] \in IdsOf(Listing)
        /\ \A id \in IdsOf(Listing) : StrLe(id, CheckpointLoad(files)[1])

\* C4: on an IncrementalDataSet every operation other than confirm() leaves the
\* content of the checkpoint store unchanged.
C4_OnlyConfirmChangesCheckpoint ==
    [][(Incremental /\ lastOp' # "confirm") =>
          CheckpointLoad(files') = CheckpointLoad(files)]_vars

\* C5: when save() has ended, by returning or by raising, the listing cache is
\* invalidated.
C5_SaveAlwaysInvalidates == lastOp = "save" => partition_cache = <<>>

\* C6: for an instance constructed with forced checkpoint F, every listing holds only
\* partitions with id > F, a listing computed afresh consists of exactly the
\* candidate partitions with id > F whatever the checkpoint store holds, and
\* confirm() does not change what a fresh listing contains.
C6_ForcedCheckpointPinsListing ==
    /\ []((Incremental /\ force_checkpoint # <<>>) =>
             \A p \in Range(Listing) : StrLt(force_checkpoint[1], _path_to_partition(p)))
    /\ [][(Incremental /\ force_checkpoint # <<>>) =>
             /\ (lastOp' \in {"exists", "load", "confirm"} /\ findCount' = 1 =>
                   Range(Listing') =
                       {p \in Candidates(files) :
                           StrLt(force_checkpoint[1], _path_to_partition(p))})
             /\ (lastOp' = "confirm" => IncrementalList(files') = IncrementalList(files))]_vars

\* C6 witness: with a forced checkpoint, a confirm() has stored another value and a
\* load() that computed its listing afresh returned a partition that the stored
\* value would exclude.
C6_Witness ==
    /\ Incremental /\ force_checkpoint # <<>>
    /\ confirmed # <<>> /\ CheckpointLoad(files) = confirmed /\ confirmed # force_checkpoint
    /\ lastOp = "load" /\ findCount = 1
    /\ \E id \in DOMAIN retLoad : StrLe(id, confirmed[1])

C8_EmptyListingRaises ==
    /\ (lastOp = "load" /\ Listing = <<>> => outcome = "DataSetError")
    /\ (lastOp = "exists" /\ Listing = <<>> => outcome = "ok" /\ ~retExists)

\* C8 as amended: PartitionedDataSet.load() raises DataSetError exactly when its
\* listing is empty, IncrementalDataSet.load() with an empty listing returns an
\* empty mapping without raising, and on both engines exists() never raises and
\* returns false exactly when the listing is empty.
C8_EmptyListing ==
    /\ (Partitioned /\ lastOp = "load" => (outcome = "DataSetError" <=> Listing = <<>>))
    /\ (Incremental /\ lastOp = "load" /\ Listing = <<>> =>
            outcome = "ok" /\ DOMAIN retLoad = {})
    /\ (lastOp = "exists" => outcome = "ok" /\ (retExists <=> Listing # <<>>))

\* C8 witness: PartitionedDataSet.load() computed a listing afresh, found it empty
\* although a file lies under the root, and raised.
C8_Witness ==
    /\ Partitioned /\ lastOp = "load" /\ findCount = 1
    /\ outcome = "DataSetError" /\ FilesUnderRoot(files) # {}

\* C9: IncrementalDataSet.load() never raises for want of partitions: it returns
\* a mapping whose keys are the ids of its listing, the empty mapping when the
\* listing is empty, and then loads nothing.
C9_IncrementalLoadEmpty ==
    (Incremental /\ lastOp = "load") =>
        /\ outcome = "ok"
        /\ DOMAIN retLoad = IdsOf(Listing)
        /\ (Listing = <<>> => DOMAIN retLoad = {} /\ loadLog = <<>>)

\* C9 witness: every partition is confirmed, and a load() that computed its listing
\* afresh returned the empty mapping.
C9_Witness ==
    /\ Incremental /\ force_checkpoint = <<>>
    /\ confirmed # <<>> /\ CheckpointLoad(files) = confirmed
    /\ Candidates(files) # {}
    /\ lastOp = "load" /\ findCount = 1 /\ outcome = "ok" /\ DOMAIN retLoad = {}

\* C10: confirm() leaves a cached listing in the cache; a load() that directly
\* follows a confirm() performs no find and returns the partitions of the listing
\* the confirm() used; a load() that directly follows a release() returns only
\* partitions past the stored checkpoint.
C10_ConfirmKeepsCache ==
    [][Incremental =>
          /\ (lastOp' = "confirm" /\ partition_cache # <<>> =>
                partition_cache' = partition_cache)
          /\ (lastOp = "confirm" /\ lastOp' = "load" =>
                /\ partition_cache # <<>>
                /\ findCount' = 0
                /\ DOMAIN retLoad' = IdsOf(Listing))
          /\ (lastOp = "release" /\ lastOp' = "load" /\ force_checkpoint = <<>>
                /\ CheckpointLoad(files) # <<>> =>
                \A id \in DOMAIN retLoad' : StrLt(CheckpointLoad(files)[1], id))]_vars

\* C10 witness: after a confirm() a load() served from the cache returned the
\* partition the confirm() has just stored as the checkpoint.
C10_Witness ==
    /\ Incremental /\ force_checkpoint = <<>>
    /\ lastOp = "load" /\ findCount = 0
    /\ confirmed # <<>> /\ CheckpointLoad(files) = confirmed
    /\ confirmed[1] \in DOMAIN retLoad

\* C11: IncrementalDataSet.load() performs exactly one underlying load for each
\* partition of its listing, on the file of that partition and in listing order,
\* and returns a mapping whose keys are exactly the ids of the listed partitions
\* and whose values are the data of their files, not load functions.
C11_IncrementalLoadIsEager ==
    (Incremental /\ lastOp = "load") =>
        /\ Len(loadLog) = Len(Listing)
        /\ \A i \in 1..Len(Listing) : StorageKey(loadLog[i]) = Listing[i]
        /\ DOMAIN retLoad = IdsOf(Listing)
        /\ \A p \in Range(Listing) : retLoad[_path_to_partition(p)] = files[p]
        /\ thunks = <<>>

\* C11 witness: IncrementalDataSet.load() listed two partitions or more, loaded
\* each of them and returned their data.
C11_Witness ==
    /\ Incremental /\ lastOp = "load" /\ outcome = "ok"
    /\ Len(Listing) >= 2 /\ Len(loadLog) = Len(Listing)
    /\ Cardinality(DOMAIN retLoad) = Len(Listing)

\* C12: a constructor given a dataset definition or a checkpoint definition that
\* asks for versioning raises DataSetError, and has accessed no filesystem
\* capability (sep, invalidate_cache, find, exists) when it raises.
C12_VersioningRaisesBeforeFilesystem ==
    (lastOp = "init" /\ (dataset_versioned \/ checkpoint_versioned)) =>
        /\ outcome = "DataSetError"
        /\ fsLog = <<>>

\* C13: when an underlying save raises while save() writes partition k, the
\* exception reaches the caller, every partition of the mapping sorted before k
\* has been written and stays written, and no partition from k on is written.
C13_FailingSaveKeepsEarlierWrites ==
    [][(lastOp' = "save" /\ outcome' = "SaveError") =>
          \E k \in DOMAIN saveArg' :
              \A id \in DOMAIN saveArg' :
                  LET key == StorageKey(SavePath(id)) IN
                  IF StrLt(id, k)
                  THEN /\ <<SavePath(id), saveArg'[id]>> \in Range(saveLog')
                       /\ key \in DOMAIN files'
                       /\ files'[key] = saveArg'[id]
                  ELSE /\ \A i \in 1..Len(saveLog') : saveLog'[i][1] # SavePath(id)
                       /\ key \in DOMAIN files' =>
                            key \in DOMAIN files /\ files'[key] = files[key]]_vars

\* C13 witness: save() of two partitions raised at the second one; the first one
\* is written, the second one is not.
C13_Witness ==
    /\ lastOp = "save" /\ outcome = "SaveError"
    /\ Cardinality(DOMAIN saveArg) = 2 /\ Len(saveLog) = 1
    /\ StorageKey(saveLog[1][1]) \in DOMAIN files
    /\ \E id \in DOMAIN saveArg : StorageKey(SavePath(id)) \notin DOMAIN files

\* C14: save() writes the partitions in ascending order of partition id: its
\* i-th underlying save is that of the i-th smallest id of the mapping, and a
\* save() that returns has written every partition of the mapping.
C14_SaveWritesInIdOrder ==
    lastOp = "save" =>
        /\ \A i \in 1..Len(saveLog) :
              \E id \in DOMAIN saveArg :
                  /\ saveLog[i] = <<SavePath(id), saveArg[id]>>
                  /\ Cardinality({other \in DOMAIN saveArg : StrLt(other, id)}) = i - 1
        /\ outcome = "ok" => Len(saveLog) = Cardinality(DOMAIN saveArg)

\* C14 witness: save() of two partitions returned after writing "CHECKPOINT"
\* first and "a" second.
C14_Witness ==
    /\ lastOp = "save" /\ outcome = "ok" /\ Len(saveLog) = 2
    /\ saveLog[1][1] = SavePath(DEFAULT_CHECKPOINT_FILENAME)
    /\ saveLog[2][1] = SavePath(<<97>>)

\* C15: save() removes the root exactly when overwrite is set and the root
\* exists; with overwrite set, after a save() that returns, the files under the
\* root are exactly those of the saved mapping (none for an empty mapping); with
\* overwrite unset, every file that the mapping does not name is retained.
C15_OverwriteReplacesRoot ==
    [][lastOp' = "save" =>
          LET written == {StorageKey(SavePath(id)) : id \in DOMAIN saveArg'} IN
          /\ "rm" \in Range(fsLog') <=> (overwrite /\ FilesUnderRoot(files) # {})
          /\ (overwrite /\ outcome' = "ok") => FilesUnderRoot(files') = written
          /\ ~overwrite =>
                \A p \in DOMAIN files \ written : p \in DOMAIN files' /\ files'[p] = files[p]]_vars

\* C15 witness: with overwrite set, save() of the empty mapping has removed a
\* root that held files and left nothing under it.
C15_Witness ==
    /\ overwrite /\ lastOp = "save" /\ outcome = "ok"
    /\ DOMAIN saveArg = {} /\ "rm" \in Range(fsLog)
    /\ FilesUnderRoot(files) = {}

\* C16: on a PartitionedDataSet, the load() that follows a save() of a mapping m
\* that returned (whether or not a listing was cached before the save) returns
\* a mapping that holds every key of m, the load function under a key reads the
\* data saved for that key, and the file written for key k is
\* root + separator + k + filename_suffix.
C16_SaveThenLoadRoundTrip ==
    [][(Partitioned /\ lastOp = "save" /\ outcome = "ok" /\ DOMAIN saveArg # {}
          /\ lastOp' = "load") =>
          /\ outcome' = "ok"
          /\ \A k \in DOMAIN saveArg :
                /\ <<path \o _sep \o k \o filename_suffix, saveArg[k]>> \in Range(saveLog)
                /\ k \in DOMAIN retLoad'
                /\ StorageKey(retLoad'[k]) \in DOMAIN files
                /\ files[StorageKey(retLoad'[k])] = saveArg[k]]_vars

\* C17: for every root (relative or absolute, with or without a protocol), every
\* filename_suffix and every partition id, the id of the path of a partition id
\* is that partition id: _path_to_partition(_partition_to_path(id)) = id.
C17_CodecRoundTrip == Len(codec) = 3 => codec[3] = codec[1]

\* C18: a confirm() that follows an earlier confirm() of the instance, with no
\* call or only release() calls in between and no partition added, leaves the
\* checkpoint store holding what the earlier confirm() left in it.
C18_ConfirmIdempotent ==
    [][(Incremental /\ quiet /\ lastOp' = "confirm") =>
          CheckpointLoad(files') = CheckpointLoad(files)]_vars

\* C19: confirm() with an empty listing leaves the storage as it is; no
\* confirm() loads or saves an underlying partition dataset, and the only file
\* a confirm() may create or change is the checkpoint file.
C19_ConfirmWritesOnlyCheckpoint ==
    [][lastOp' = "confirm" =>
          /\ Listing' = <<>> => files' = files
          /\ loadLog' = <<>>
          /\ saveLog' = <<>>
          /\ \A p \in (DOMAIN files \cup DOMAIN files') \ {CheckpointKey} :
                p \in DOMAIN files /\ p \in DOMAIN files' /\ files'[p] = files[p]]_vars

\* C19 witness: a confirm() found files under the root but an empty listing, and
\* no checkpoint file exists after it.
C19_Witness ==
    /\ Incremental /\ lastOp = "confirm" /\ partition_cache = << <<>> >>
    /\ FilesUnderRoot(files) # {}
    /\ CheckpointKey \notin DOMAIN files

\* C20: while the checkpoint dataset cannot be loaded (no checkpoint file is
\* stored) and no checkpoint is forced, exists(), load() and confirm() of an
\* IncrementalDataSet do not raise, and a listing they compute holds every file
\* under the root that ends with the suffix, the checkpoint file excepted.
C20_MissingCheckpointIsAbsent ==
    [][(Incremental /\ force_checkpoint = <<>> /\ CheckpointKey \notin DOMAIN files
          /\ lastOp' \in {"exists", "load", "confirm"}) =>
          /\ outcome' = "ok"
          /\ findCount' = 1 => Range(Listing') = Candidates(files)]_vars

\* C20 witness: with no checkpoint file stored, load() computed a listing of
\* two partitions or more and returned them.
C20_Witness ==
    /\ Incremental /\ force_checkpoint = <<>> /\ CheckpointKey \notin DOMAIN files
    /\ lastOp = "load" /\ findCount = 1 /\ outcome = "ok"
    /\ Len(Listing) >= 2 /\ Range(Listing) = Candidates(files)

\* C21: on an IncrementalDataSet with the default checkpoint location, the
\* checkpoint file is in no listing, load() neither loads it nor returns a key
\* for it, and the id confirm() stores is the id of a listed path other than
\* the checkpoint file; also with an empty filename_suffix and after confirm().
C21_CheckpointFileNeverListed ==
    Incremental =>
        /\ CheckpointKey \notin Range(Listing)
        /\ lastOp = "load" =>
              /\ \A i \in 1..Len(loadLog) : StorageKey(loadLog[i]) # CheckpointKey
              /\ DOMAIN retLoad = IdsOf(SelectSeq(Listing, LAMBDA p : p # CheckpointKey))
        /\ (lastOp = "confirm" /\ Listing # <<>>) =>
              /\ Listing[Len(Listing)] # CheckpointKey
              /\ confirmed = <<_path_to_partition(Listing[Len(Listing)])>>

\* C21 witness: with an empty filename_suffix and a checkpoint file that holds an
\* id smaller than the name of the checkpoint file, a load() computed its
\* listing afresh and returned a partition.
C21_Witness ==
    /\ Incremental /\ filename_suffix = <<>> /\ force_checkpoint = <<>>
    /\ confirmed # <<>> /\ CheckpointLoad(files) = confirmed
    /\ StrLt(confirmed[1], DEFAULT_CHECKPOINT_FILENAME)
    /\ lastOp = "load" /\ findCount = 1 /\ DOMAIN retLoad # {}

\* C22: with a forced checkpoint F, a confirm() whose listing is not empty
\* writes the id of the last listed partition to the checkpoint store, and that
\* id is not F.
C22_ForcedConfirmStillWrites ==
    (Incremental /\ force_checkpoint # <<>> /\ lastOp = "confirm" /\ Listing # <<>>) =>
        /\ CheckpointLoad(files) = <<_path_to_partition(Listing[Len(Listing)])>>
        /\ CheckpointLoad(files) # force_checkpoint

\* C22 witness: with forced checkpoint "a", a confirm() that listed two
\* partitions or more has written the checkpoint file.
C22_Witness ==
    /\ Incremental /\ force_checkpoint # <<>> /\ lastOp = "confirm"
    /\ Len(Listing) >= 2 /\ CheckpointLoad(files) # <<>>

\* C23: a listing PartitionedDataSet computes holds exactly the files find
\* returns under the root that end with filename_suffix (all of them when the
\* suffix is empty), in the order of find; no listing, no result of load() and
\* no exists() counts a path without the suffix.
C23_ListingIsSuffixFilter ==
    Partitioned =>
        /\ \A p \in Range(Listing) : endswith(p, filename_suffix)
        /\ (findCount = 1 /\ lastOp \in {"exists", "load"}) =>
              /\ Range(Listing) = {p \in FilesUnderRoot(files) : endswith(p, filename_suffix)}
              /\ \A i, j \in 1..Len(Listing) : i < j => StrLt(Listing[i], Listing[j])
              /\ filename_suffix = <<>> => Range(Listing) = FilesUnderRoot(files)
        /\ lastOp = "exists" => (retExists <=> Listing # <<>>)
        /\ (lastOp = "load" /\ outcome = "ok") =>
              {StorageKey(retLoad[id]) : id \in DOMAIN retLoad} = Range(Listing)

\* C23 witness: with suffix ".c", a load() computed its listing afresh over a
\* root that holds a file without the suffix, and left that file out.
C23_Witness ==
    /\ Partitioned /\ filename_suffix # <<>>
    /\ lastOp = "load" /\ findCount = 1 /\ outcome = "ok"
    /\ \E p \in FilesUnderRoot(files) : ~endswith(p, filename_suffix)
    /\ Range(Listing) # FilesUnderRoot(files)

\* C24: when the root was given with a protocol prefix, every file path handed
\* to an underlying dataset by load() and by save() begins with
\* "<protocol>://", also for a listed path whose first segment begins with the
\* characters of the protocol.
C24_ProtocolRejoined ==
    startswith(path, _protocol \o SchemeSep) =>
        /\ \A id \in DOMAIN thunks : startswith(thunks[id], _protocol \o SchemeSep)
        /\ \A i \in 1..Len(loadLog) : startswith(loadLog[i], _protocol \o SchemeSep)
        /\ \A i \in 1..Len(saveLog) : startswith(saveLog[i][1], _protocol \o SchemeSep)



\* the positions of saveEvents at which the function of partition id is invoked
CallsOf(id) == {i \in 1..Len(saveEvents) : saveEvents[i] = <<"call", id>>}

\* the positions of saveEvents at which partition id is saved
SavesOf(id) == {i \in 1..Len(saveEvents) : saveEvents[i] = <<"save", id>>}

\* C30: in save(), the function given for a partition is invoked at most once,
\* and exactly once when save() returns; when it is invoked, every partition
\* with a smaller id has been saved, no partition with an id not smaller has
\* been saved, and its own save, if any, comes next; the function of a partition
\* sorted after the partition at which save() raised is not invoked.
C30_ProducerInvokedAtItsSave ==
    lastOp = "save" =>
        \A id \in DOMAIN saveArg :
            callable(saveArg[id]) =>
                /\ Cardinality(CallsOf(id)) <= 1
                /\ outcome = "ok" => Cardinality(CallsOf(id)) = 1
                /\ \A i \in CallsOf(id) :
                      /\ \A other \in DOMAIN saveArg :
                            /\ StrLt(other, id) => \E j \in SavesOf(other) : j < i
                            /\ ~StrLt(other, id) => \A j \in SavesOf(other) : j > i
                      /\ SavesOf(id) \subseteq {i + 1}
                /\ \A failed \in DOMAIN saveArg :
                      (SavesOf(failed) = {} /\ StrLt(failed, id)) => CallsOf(id) = {}

\* C30 witness: save() of two partition functions raised in the underlying save
\* of the first one: the first function was invoked, the second one was not.
C30_Witness ==
    /\ lastOp = "save" /\ outcome = "SaveError"
    /\ Cardinality(DOMAIN saveArg) = 2
    /\ \A id \in DOMAIN saveArg : callable(saveArg[id])
    /\ saveEvents = << <<"call", DEFAULT_CHECKPOINT_FILENAME>> >>

(***************************************************************************)
(* Credentials and filesystem arguments of the dataset definitions.        *)
(* A mapping is an object with an identity; heap gives the content each    *)
(* object has now, args the content the caller's mappings had when the     *)
(* instance was constructed.                                               *)
(***************************************************************************)

CREDENTIALS_KEY == "credentials"

\* the keys __init__ propagates into the dataset definition
PropagatedKeys == {CREDENTIALS_KEY, "fs_args"}

\* the constructor arguments: the top-level mappings (None, {} or a mapping with
\* entries), the keys the dataset definition declares, and whether the checkpoint
\* definition declares credentials
ArgSets ==
    [credentials : {"None", "{}", "T"}, fs_args : {"None", "{}", "T"},
     dataset : SUBSET PropagatedKeys, checkpoint : BOOLEAN]

\* "if credentials:", "if self._fs_args:", "deepcopy(x) or {}" : None and {} are false
Truthy(content) == content \notin {"None", "{}"}

\* the faulty variant: the same object is stored
deepcopy_shared(obj, site) == obj

\* copy.deepcopy(obj), called at the given line: a new object with the content of obj
deepcopy(obj, site) == obj \o <<site>>

\* the content an object has when the constructor returns: a copy has the content of its original
ContentAtInit(a, obj) ==
    IF obj[1] = "credentials" THEN a.credentials
    ELSE IF obj[1] = "fs_args" THEN a.fs_args
    ELSE IF obj[1] = "dataset" THEN "D"
    ELSE IF obj[1] = "checkpoint" THEN "K"
    ELSE "{}"

\* {**f, k: v}
Put(f, k, v) == [x \in DOMAIN f \cup {k} |-> IF x = k THEN v ELSE f[x]]

\* {**f, **g}
Merge(f, g) == [x \in DOMAIN f \cup DOMAIN g |-> IF x \in DOMAIN g THEN g[x] ELSE f[x]]

\* self._credentials = deepcopy(credentials) or {}
_credentials(a) ==
    IF Truthy(a.credentials) THEN deepcopy(<<"credentials">>, "213") ELSE <<"new", "213">>

\* self._fs_args = deepcopy(fs_args) or {}
_fs_args(a) ==
    IF Truthy(a.fs_args) THEN deepcopy(<<"fs_args">>, "215") ELSE <<"new", "215">>

\* the _dataset_config parse_dataset_definition returns: the keys the definition declares
DeclaredConfig(a) == [k \in a.dataset |-> <<"dataset", k>>]

\* self._dataset_config when PartitionedDataSet.__init__ returns
DatasetConfigOf(a) ==
    LET declared == DeclaredConfig(a)
        withCredentials ==
            IF Truthy(a.credentials) /\ CREDENTIALS_KEY \notin DOMAIN declared
            THEN Put(declared, CREDENTIALS_KEY, deepcopy(<<"credentials">>, "211"))
            ELSE declared
    IN IF Truthy(a.fs_args) /\ "fs_args" \notin DOMAIN withCredentials
       THEN Put(withCredentials, "fs_args", deepcopy(_fs_args(a), "223"))
       ELSE withCredentials

\* default_config of _parse_checkpoint_config, without its type and filepath
default_config(a) ==
    IF Truthy(a.credentials)
    THEN [k \in {CREDENTIALS_KEY} |-> deepcopy(_credentials(a), "476")]
    ELSE [k \in {} |-> <<>>]

\* self._checkpoint_config when IncrementalDataSet.__init__ returns
CheckpointConfigOf(a) ==
    LET checkpoint == IF a.checkpoint
                      THEN [k \in {CREDENTIALS_KEY} |->
                               deepcopy(<<"checkpoint", CREDENTIALS_KEY>>, "456")]
                      ELSE [k \in {} |-> <<>>]
    IN Merge(default_config(a), checkpoint)

\* the objects that exist when the constructor returns
ObjectsOf(a) ==
    {<<"credentials">>, <<"fs_args">>, <<"checkpoint", CREDENTIALS_KEY>>,
     _credentials(a), _fs_args(a)}
    \cup {DatasetConfigOf(a)[k] : k \in DOMAIN DatasetConfigOf(a)}
    \cup {CheckpointConfigOf(a)[k] : k \in DOMAIN CheckpointConfigOf(a)}

\* everything of the dataset instance but the operation last called and its outcome
instanceState ==
    <<path, filename_suffix, engine, overwrite, force_checkpoint, dataset_versioned,
      checkpoint_versioned, codec, files, partition_cache, retExists, retLoad,
      thunks, retThunk, loadLog, saveLog, findCount, fsLog, saveArg, saveEvents, quiet,
      confirmed, delivered>>

InitConfig ==
    /\ InitDataset(RootPaths, {"PartitionedDataSet", "IncrementalDataSet"})
    /\ Constructed
    /\ filename_suffix = <<>>
    /\ ~overwrite
    /\ force_checkpoint = <<>>
    /\ NoSession
    /\ args \in {a \in ArgSets : a.checkpoint => engine = "IncrementalDataSet"}
    /\ heap = [obj \in ObjectsOf(args) |-> ContentAtInit(args, obj)]
    /\ dataset_config = DatasetConfigOf(args)
    /\ checkpoint_config = IF engine = "IncrementalDataSet"
                           THEN CheckpointConfigOf(args) ELSE [k \in {} |-> <<>>]
    /\ described = <<>>
    /\ instantiated = <<>>

\* the caller adds an entry to the mapping it passed as credentials or as fs_args
CallerMutates ==
    \E key \in PropagatedKeys :
        /\ args[key] # "None"
        /\ heap[<<key>>] # "M"
        /\ heap' = [heap EXCEPT ![<<key>>] = "M"]
        /\ lastOp' = "caller"
        /\ UNCHANGED <<instanceState, outcome, session, args, dataset_config,
                       checkpoint_config, described, instantiated>>

\* clean_dataset_config of _describe
clean_dataset_config(cfg) == [k \in DOMAIN cfg \ {CREDENTIALS_KEY} |-> cfg[k]]

\* the faulty variant: describe() pops the credentials of the stored definition
ConfigAfterDescribe_popped(cfg) == clean_dataset_config(cfg)

\* self._dataset_config after _describe: the comprehension builds a new mapping
ConfigAfterDescribe(cfg) == cfg

\* describe()
Describe ==
    /\ described' = <<clean_dataset_config(dataset_config)>>
    /\ dataset_config' = ConfigAfterDescribe(dataset_config)
    /\ lastOp' = "describe"
    /\ UNCHANGED <<instanceState, outcome, session, args, heap, checkpoint_config,
                   instantiated>>

\* self._filepath_arg, by default
filepath_arg == "filepath"

\* the partitions a load() or a save() goes through, in order: none, "a", or "B" and "a"
PartitionRuns == {<<>>, << <<97>> >>, << <<66>>, <<97>> >>}

\* faulty variant: kwargs = self._dataset_config
CopyOfConfig_aliased == "self._dataset_config"

\* the object kwargs names after kwargs = deepcopy(self._dataset_config): a new one
CopyOfConfig == "kwargs"

\* the two mapping objects after "kwargs = deepcopy(self._dataset_config);
\* kwargs[self._filepath_arg] = filepath", for a stored definition cfg
Inject(cfg, filepath) ==
    LET objs == [o \in {"self._dataset_config", CopyOfConfig} |->
                    IF o = "self._dataset_config" THEN cfg
                    ELSE [k \in DOMAIN cfg |-> deepcopy(cfg[k], "kwargs")]]
    IN  [objs EXCEPT ![CopyOfConfig] = Put(@, filepath_arg, filepath)]

RECURSIVE ConfigAfterRun(_, _)
\* self._dataset_config after the loop of _load or _save over the partitions
ConfigAfterRun(cfg, ids) ==
    IF ids = <<>> THEN cfg
    ELSE ConfigAfterRun(
             Inject(cfg, _join_protocol(_partition_to_path(Head(ids))))["self._dataset_config"],
             Tail(ids))

RECURSIVE KwargsOfRun(_, _)
\* the kwargs the loop of _load or _save passes to self._dataset_type, in order
KwargsOfRun(cfg, ids) ==
    IF ids = <<>> THEN <<>>
    ELSE LET objs == Inject(cfg, _join_protocol(_partition_to_path(Head(ids))))
         IN  <<objs[CopyOfConfig]>> \o KwargsOfRun(objs["self._dataset_config"], Tail(ids))

\* the heap once the values under the keys of cfg have been deep-copied
HeapWithCopies(h, cfg) ==
    LET copies == {deepcopy(cfg[k], "kwargs") : k \in DOMAIN cfg \ {filepath_arg}}
    IN  [o \in DOMAIN h \cup copies |->
            IF o \in DOMAIN h THEN h[o]
            ELSE LET k == CHOOSE k \in DOMAIN cfg \ {filepath_arg} :
                              o = deepcopy(cfg[k], "kwargs")
                 IN  h[cfg[k]]]

\* the part of load() and of save() that builds the underlying datasets
Instantiate ==
    \E op \in {"load", "save"}, ids \in PartitionRuns :
        /\ lastOp' = op
        /\ instantiated' = KwargsOfRun(dataset_config, ids)
        /\ dataset_config' = ConfigAfterRun(dataset_config, ids)
        /\ heap' = IF ids = <<>> THEN heap ELSE HeapWithCopies(heap, dataset_config)
        /\ UNCHANGED <<instanceState, outcome, session, args, checkpoint_config,
                       described>>

\* exists() and confirm(): neither reads nor writes self._dataset_config
ListOnly ==
    \E op \in {"exists"} \cup (IF engine = "IncrementalDataSet" THEN {"confirm"} ELSE {}) :
        /\ lastOp' = op
        /\ lastOp # op
        /\ UNCHANGED <<instanceState, outcome, session, descriptors>>

NextConfig == CallerMutates \/ Describe \/ Instantiate \/ ListOnly

SpecConfig == InitConfig /\ [][NextConfig]_vars

\* the content now under a key of a stored definition
Stored(cfg, key) == heap[cfg[key]]

\* C25: a key the dataset definition (or, for credentials, the checkpoint
\* definition) declares keeps the declared value and the top-level value is
\* not merged in; otherwise a top-level mapping with entries is stored under
\* the key with the content it had at construction, whatever the caller does
\* to its mapping afterwards, and a top-level None or {} stores nothing
C25_PropagationKeepsExplicitAndCopies ==
    /\ \A key \in PropagatedKeys :
          IF key \in args.dataset
          THEN key \in DOMAIN dataset_config /\ Stored(dataset_config, key) = "D"
          ELSE IF Truthy(args[key])
          THEN key \in DOMAIN dataset_config /\ Stored(dataset_config, key) = args[key]
          ELSE key \notin DOMAIN dataset_config
    /\ engine = "IncrementalDataSet" =>
          IF args.checkpoint
          THEN Stored(checkpoint_config, CREDENTIALS_KEY) = "K"
          ELSE IF Truthy(args.credentials)
          THEN Stored(checkpoint_config, CREDENTIALS_KEY) = args.credentials
          ELSE CREDENTIALS_KEY \notin DOMAIN checkpoint_config

\* the caller changed both top-level mappings after an incremental instance
\* took credentials for the dataset and the checkpoint and fs_args from them
C25_Witness ==
    /\ engine = "IncrementalDataSet"
    /\ args.dataset = {} /\ ~args.checkpoint
    /\ args.credentials = "T" /\ args.fs_args = "T"
    /\ heap[<<"credentials">>] = "M" /\ heap[<<"fs_args">>] = "M"
    /\ Stored(dataset_config, CREDENTIALS_KEY) = "T"
    /\ Stored(dataset_config, "fs_args") = "T"
    /\ Stored(checkpoint_config, CREDENTIALS_KEY) = "T"

\* C26: what describe() returns as dataset config has no credentials entry
\* and keeps every other entry, and the stored definition still has the
\* credentials the constructor put there, declared or injected
C26_DescribeHidesCredentials ==
    described # <<>> =>
        /\ CREDENTIALS_KEY \notin DOMAIN described[1]
        /\ DOMAIN described[1] = DOMAIN dataset_config \ {CREDENTIALS_KEY}
        /\ dataset_config = DatasetConfigOf(args)
        /\ (CREDENTIALS_KEY \in args.dataset \/ Truthy(args.credentials)) =>
               CREDENTIALS_KEY \in DOMAIN dataset_config

\* describe() ran on an instance whose definition got the top-level
\* credentials injected and declares its own fs_args
C26_Witness ==
    /\ lastOp = "describe"
    /\ args.dataset = {"fs_args"} /\ args.credentials = "T"
    /\ described # <<>>
    /\ DOMAIN described[1] = {"fs_args"}
    /\ DOMAIN dataset_config = {CREDENTIALS_KEY, "fs_args"}

(***************************************************************************)
(* KedroSession: run(), close() and the context manager protocol.          *)
(***************************************************************************)

\* most run() calls looked at in one session
MaxRuns == 3

\* what a runner or a with block can raise: an Exception, or a BaseException
\* that is no Exception (KeyboardInterrupt, SystemExit)
Raisables == {"Exception", "BaseException"}

\* the hooks run() calls; one of them may raise HookError
RunHooks == {"before_pipeline_run", "on_pipeline_error", "after_pipeline_run"}

InitSession ==
    /\ InitDataset(RootPaths, {"PartitionedDataSet"})
    /\ Constructed
    /\ filename_suffix = <<>>
    /\ ~overwrite
    /\ NoDescriptors
    /\ save_on_close \in BOOLEAN
    /\ _store = <<>>
    /\ _run_called = FALSE
    /\ disk = <<>>
    /\ hookLog = <<>>
    /\ attempts = 0
    /\ phase = "created"

\* "except Exception as error" of run()
Caught(result) == result = "Exception"

\* the faulty variant: after_pipeline_run is called however the runner ended
HooksAfterRunner_finally(result) ==
    (IF Caught(result) THEN <<"on_pipeline_error">> ELSE <<>>) \o <<"after_pipeline_run">>

\* the hooks run() calls once runner.run has ended
HooksAfterRunner(result) ==
    IF result = "ok" THEN <<"after_pipeline_run">>
    ELSE IF Caught(result) THEN <<"on_pipeline_error">>
    ELSE <<>>

\* the calls of a run() that passed the _run_called test, up to the first that raises
RunCalls(found, result, failing) ==
    IF ~found THEN <<"load_context">>
    ELSE IF failing = "before_pipeline_run"
    THEN <<"load_context", "before_pipeline_run">>
    ELSE <<"load_context", "before_pipeline_run", "runner.run">> \o HooksAfterRunner(result)

\* how a run() that passed the _run_called test ends
RunOutcome(found, result, failing) ==
    LET calls == RunCalls(found, result, failing)
    IN IF ~found THEN "ValueError"
       ELSE IF failing = calls[Len(calls)] THEN "HookError"
       ELSE result

\* the faulty variant: the flag is set as soon as a run is attempted
RunCalledAfter_attempted(found, result, failing) == TRUE

\* self._run_called after a run() that passed the _run_called test
RunCalledAfter(found, result, failing) ==
    found /\ failing # "before_pipeline_run" /\ result = "ok"

\* session.run(): the pipeline name is registered or not, the runner ends in
\* one of its ways, and at most one hook raises
Run ==
    \E found \in BOOLEAN, result \in {"ok"} \cup Raisables, failing \in RunHooks \cup {"none"} :
        /\ phase # "raising"
        /\ attempts < MaxRuns
        /\ attempts' = attempts + 1
        /\ lastOp' = "run"
        /\ IF _run_called
           THEN /\ outcome' = "KedroSessionError"
                /\ hookLog' = <<>>
                /\ UNCHANGED _run_called
           ELSE /\ outcome' = RunOutcome(found, result, failing)
                /\ hookLog' = RunCalls(found, result, failing)
                /\ _run_called' = RunCalledAfter(found, result, failing)
        /\ UNCHANGED <<instanceState, descriptors, save_on_close, _store, disk, phase>>

\* the faulty variant: the store is written before the exception is recorded
SavedStore_beforeLog(before, after) == before

\* what close() writes when __exit__ calls it: the store as _log_exception left it
SavedStore(before, after) == after

\* close(): what is on disk afterwards
DiskAfterClose(store) == IF save_on_close THEN <<store>> ELSE disk

\* the calls close() makes
CloseCalls == IF save_on_close THEN <<"store.save">> ELSE <<>>

\* session.close()
Close ==
    /\ phase # "raising"
    /\ lastOp' = "close"
    /\ outcome' = "ok"
    /\ hookLog' = CloseCalls
    /\ disk' = DiskAfterClose(_store)
    /\ UNCHANGED <<instanceState, descriptors, save_on_close, _run_called, _store,
                   attempts, phase>>

\* with session: the block is entered
Enter ==
    /\ phase = "created"
    /\ phase' = "entered"
    /\ lastOp' = "enter"
    /\ outcome' = "ok"
    /\ hookLog' = <<>>
    /\ UNCHANGED <<instanceState, descriptors, save_on_close, _run_called, _store, disk,
                   attempts>>

\* the with block raises: its own exception, or the one its run() ended with
BlockRaises ==
    \E exc \in Raisables \cup {"ValueError", "KedroSessionError", "HookError"} :
        /\ phase = "entered"
        /\ exc \in Raisables \/ (lastOp = "run" /\ outcome = exc)
        /\ phase' = "raising"
        /\ outcome' = exc
        /\ lastOp' = "block"
        /\ UNCHANGED <<instanceState, descriptors, save_on_close, _run_called, _store,
                       disk, hookLog, attempts>>

\* what __exit__ returns: None
ExitReturns == FALSE

\* session.__exit__, called when the block ends or raises
Exit ==
    LET raised == phase = "raising"
        logged == IF raised THEN <<outcome>> ELSE _store
    IN /\ phase \in {"entered", "raising"}
       /\ lastOp' = "exit"
       /\ _store' = logged
       /\ disk' = DiskAfterClose(SavedStore(_store, logged))
       /\ hookLog' = (IF raised THEN <<"_log_exception">> ELSE <<>>) \o CloseCalls
       /\ phase' = IF raised /\ ~ExitReturns THEN "propagating" ELSE "exited"
       /\ outcome' = IF raised /\ ~ExitReturns THEN outcome ELSE "ok"
       /\ UNCHANGED <<instanceState, descriptors, save_on_close, _run_called, attempts>>

NextSession == Run \/ Close \/ Enter \/ BlockRaises \/ Exit

SpecSession == InitSession /\ [][NextSession]_vars

\* C27: a run() that is not the first one attempted in the session raises
\* KedroSessionError, whatever became of the earlier attempts
C27_SecondAttemptRejected ==
    (lastOp = "run" /\ attempts >= 2) => outcome = "KedroSessionError"

\* C28 as stated: a run() that reached the runner called exactly one of
\* on_pipeline_error and after_pipeline_run
C28_ExactlyOneHookFires ==
    (lastOp = "run" /\ \E i \in DOMAIN hookLog : hookLog[i] = "runner.run") =>
        Cardinality({"on_pipeline_error", "after_pipeline_run"}
                    \cap {hookLog[i] : i \in DOMAIN hookLog}) = 1

\* the calls of the last operation, as a set
Called == {hookLog[i] : i \in DOMAIN hookLog}

\* C28: a run() that reached the runner called before_pipeline_run first and
\* the runner right after it; when the runner returned, after_pipeline_run
\* came next and on_pipeline_error was not called; when the runner raised an
\* Exception, on_pipeline_error came next, after_pipeline_run was not called
\* and run() ended with that Exception unless the hook raised itself; when
\* the runner raised a BaseException that is no Exception, neither hook was
\* called and run() ended with it; and the two hooks are never both called
C28_HookOrdering ==
    (lastOp = "run" /\ "runner.run" \in Called) =>
        /\ Len(hookLog) >= 3
        /\ hookLog[2] = "before_pipeline_run" /\ hookLog[3] = "runner.run"
        /\ ~({"on_pipeline_error", "after_pipeline_run"} \subseteq Called)
        /\ outcome = "ok" => hookLog[Len(hookLog)] = "after_pipeline_run"
        /\ "after_pipeline_run" \in Called =>
               /\ hookLog[4] = "after_pipeline_run"
               /\ outcome \in {"ok", "HookError"}
               /\ _run_called
        /\ "on_pipeline_error" \in Called =>
               /\ hookLog[4] = "on_pipeline_error"
               /\ outcome \in {"Exception", "HookError"}
        /\ outcome = "Exception" => hookLog[Len(hookLog)] = "on_pipeline_error"
        /\ outcome = "BaseException" => Len(hookLog) = 3
        /\ Len(hookLog) = 3 => outcome = "BaseException"

\* the runner raised an Exception, on_pipeline_error took it and run() ended with it
C28_Witness ==
    /\ lastOp = "run" /\ outcome = "Exception"
    /\ hookLog = <<"load_context", "before_pipeline_run", "runner.run", "on_pipeline_error">>

\* C29: __exit__ saves the store exactly when save_on_close is true; when
\* the block raised, the store holds the exception before it is saved, so
\* what is saved holds it too, and the exception goes on to the caller
C29_ExitSavesAndRecords ==
    [][(lastOp' = "exit" /\ phase' # phase) =>
          /\ ("store.save" \in {hookLog'[i] : i \in DOMAIN hookLog'}) <=> save_on_close
          /\ save_on_close => disk' = <<_store'>>
          /\ ~save_on_close => disk' = disk
          /\ phase = "raising" =>
                /\ _store' = <<outcome>>
                /\ hookLog'[1] = "_log_exception"
                /\ phase' = "propagating"
                /\ outcome' = outcome
          /\ phase # "raising" => _store' = _store /\ phase' = "exited"]_vars

\* a block that raised was left with save_on_close true: the exception is in
\* the saved store and goes on to the caller
C29_Witness ==
    /\ lastOp = "exit" /\ save_on_close
    /\ phase = "propagating" /\ outcome = "Exception"
    /\ _store = <<"Exception">> /\ disk = << <<"Exception">> >>
    /\ hookLog = <<"_log_exception", "store.save">>

(***************************************************************************)
(* Partition ids of listed object keys: PartitionedDataSet on an object    *)
(* store whose keys are arbitrary strings.                                 *)
(***************************************************************************)

InitKeys == InitFor(RootPaths, {"PartitionedDataSet"}) /\ Constructed

NextKeys == Load \/ Release \/ ExternalAddKey

SpecKeys == InitKeys /\ [][NextKeys]_vars

\* what follows the root and its separator in a listed path
UnderRoot(p) ==
    SubSeq(p, Len(_strip_protocol(_normalized_path) \o _sep) + 1, Len(p))

\* C31: the id of a listed path does not begin with a separator, is the
\* path under the root without one trailing filename_suffix (all of it when
\* filename_suffix is empty), and differs from the id of every other listed
\* path, so that load() returns one entry per listed path
C31_ListedIdsDistinct ==
    (lastOp = "load" /\ outcome = "ok") =>
        /\ \A p \in Range(Listing) :
              /\ ~startswith(_path_to_partition(p), _sep)
              /\ lstrip(UnderRoot(p), _sep) = _path_to_partition(p) \o filename_suffix
        /\ \A p, q \in Range(Listing) :
              p # q => _path_to_partition(p) # _path_to_partition(q)
        /\ Cardinality(DOMAIN retLoad) = Len(Listing)

\* C32: release() leaves the listing cache empty, calls invalidate_cache of
\* the filesystem and nothing else of it, and changes no file: partitions
\* and stored checkpoint are as before; a constructor that returned and a
\* save() that returned have ended with the same two invalidations
C32_ReleaseInvalidatesWithoutWriting ==
    /\ [](lastOp = "release" =>
             /\ partition_cache = <<>>
             /\ fsLog = <<"invalidate_cache">>
             /\ saveLog = <<>>)
    /\ []((lastOp \in {"init", "save"} /\ outcome = "ok") =>
             /\ partition_cache = <<>>
             /\ fsLog # <<>>
             /\ fsLog[Len(fsLog)] = "invalidate_cache")
    /\ [][lastOp' = "release" => files' = files]_vars

\* release() ran on an incremental instance that had a listing cached, with
\* partitions and a checkpoint on storage
C32_Witness ==
    /\ lastOp = "release" /\ Incremental
    /\ partition_cache = <<>>
    /\ CheckpointKey \in DOMAIN files
    /\ Candidates(files) # {}

\* C33: whatever load(), save(), exists(), confirm() and describe() ran, the
\* stored dataset definition has the keys and the values the constructor
\* left and no entry under filepath_arg, describe() shows no file path, and
\* each underlying dataset got a copy of the definition with its own
\* partition's path under filepath_arg
C33_DescriptorKeptAcrossPartitions ==
    /\ DOMAIN dataset_config = DOMAIN DatasetConfigOf(args)
    /\ filepath_arg \notin DOMAIN dataset_config
    /\ \A k \in DOMAIN dataset_config : dataset_config[k] = DatasetConfigOf(args)[k]
    /\ described # <<>> => filepath_arg \notin DOMAIN described[1]
    /\ \A i \in DOMAIN instantiated :
          /\ DOMAIN instantiated[i] = DOMAIN dataset_config \cup {filepath_arg}
          /\ \A k \in DOMAIN dataset_config :
                /\ instantiated[i][k] # dataset_config[k]
                /\ heap[instantiated[i][k]] = Stored(dataset_config, k)
          /\ \A j \in DOMAIN instantiated :
                i # j => instantiated[i][filepath_arg] # instantiated[j][filepath_arg]

\* describe() ran on an instance with credentials whose latest load() or
\* save() built one underlying dataset from a copy of the definition
C33_Witness ==
    /\ lastOp = "describe" /\ described # <<>>
    /\ Len(instantiated) = 1
    /\ CREDENTIALS_KEY \in DOMAIN dataset_config
    /\ \E o \in DOMAIN heap : o[Len(o)] = "kwargs"

(***************************************************************************)
(* IncrementalDataSet under load(), exists(), release(), confirm() and     *)
(* partitions added by the environment; nothing is saved through it.       *)
(***************************************************************************)

InitIncremental == InitFor(RootPaths, {"IncrementalDataSet"}) /\ Constructed

NextIncremental == Exists \/ Load \/ Release \/ Confirm \/ ExternalAdd

SpecIncremental == InitIncremental /\ [][NextIncremental]_vars


\* C34: load() returns the partitions of the listing it leaves in the
\* cache; until a release() that listing stays, whatever is added to the
\* storage; a confirm() that finds it writes the id of its last path as
\* checkpoint; and every partition on storage that is not in it and whose
\* id is greater than the checkpoint written is in the listing a call after
\* the next release() computes
C34_ConfirmUsesLoadedListing ==
    /\ [](lastOp = "load" => partition_cache # <<>> /\ DOMAIN retLoad = IdsOf(Listing))
    /\ [][(partition_cache # <<>> /\ lastOp' # "release") =>
             partition_cache' = partition_cache]_vars
    /\ [][(lastOp' = "confirm" /\ Listing # <<>>) =>
             LET written == _path_to_partition(Listing[Len(Listing)]) IN
             /\ CheckpointLoad(files') = <<written>>
             /\ \A p \in Candidates(files') \ Range(Listing) :
                   StrLt(written, _path_to_partition(p)) => p \in Range(FreshList(files'))]_vars

\* confirm() wrote the last id of a cached listing while the storage holds
\* a partition that is not in that listing and has a greater id
C34_Witness ==
    /\ lastOp = "confirm" /\ findCount = 0
    /\ Listing # <<>>
    /\ CheckpointLoad(files) = <<_path_to_partition(Listing[Len(Listing)])>>
    /\ \E p \in Candidates(files) \ Range(Listing) :
          StrLt(CheckpointLoad(files)[1], _path_to_partition(p))

\* C35: without forced checkpoint, a confirm() that finds a stored
\* checkpoint leaves one that is greater than or equal to it
C35_CheckpointNeverDecreases ==
    [][(force_checkpoint = <<>> /\ lastOp' = "confirm" /\ CheckpointLoad(files) # <<>>) =>
          /\ CheckpointLoad(files') # <<>>
          /\ StrLe(CheckpointLoad(files)[1], CheckpointLoad(files')[1])]_vars

\* with suffix ".c", a confirm() that listed the storage anew found only
\* "a-b" past the stored checkpoint although "a" is on storage, and wrote "a-b"
C35_Witness ==
    /\ lastOp = "confirm" /\ findCount = 1
    /\ force_checkpoint = <<>>
    /\ filename_suffix # <<>>
    /\ IdsOf(Listing) = {<<97, 45, 98>>}
    /\ CheckpointLoad(files) = << <<97, 45, 98>> >>
    /\ \E p \in Candidates(files) : _path_to_partition(p) = <<97>>

(***************************************************************************)
(* An IncrementalDataSet without forced checkpoint whose caller repeats    *)
(* the cycle release(), load(), confirm(), while the environment adds      *)
(* partitions in increasing order of id.                                   *)
(***************************************************************************)

InitCycles ==
    /\ InitInstance(RootPaths, {"IncrementalDataSet"})
    /\ Constructed
    /\ force_checkpoint = <<>>
    /\ NoDescriptors
    /\ NoSession
    /\ delivered = [tracking |-> TRUE, next |-> "release", once |-> {}, twice |-> {}]

\* the environment adds a file that is no partition, or a partition whose id
\* is greater than the id of every partition on storage
ExternalAddLater ==
    ExternalAddOf(
        {name \in ExtNames :
            LET p == _strip_protocol(_normalized_path) \o _sep \o name IN
            endswith(p, filename_suffix) =>
                \A q \in Candidates(files) :
                    StrLt(_path_to_partition(q), _path_to_partition(p))})

CycleRelease == delivered.next = "release" /\ Release

CycleLoad == delivered.next = "load" /\ Load

CycleConfirm == delivered.next = "confirm" /\ Confirm

NextCycles == CycleRelease \/ CycleLoad \/ CycleConfirm \/ ExternalAddLater

SpecCycles == InitCycles /\ [][NextCycles]_vars

\* C36: in cycles of release(), load(), confirm() with partitions added in
\* increasing order of id, no partition id is returned by two loads, and
\* when a load() has returned every partition on storage has been returned
\* by this or by an earlier load
C36_EachPartitionLoadedOnce ==
    /\ delivered.twice = {}
    /\ lastOp = "load" =>
          {_path_to_partition(p) : p \in Candidates(files)} \subseteq delivered.once

====
